---- MODULE Spec2Model ----
(***************************************************************************)
(* Currency arbitrage scanner (src/app.py): the cached fetch-and-compute   *)
(* routine get_market_data, the Streamlit script run that consumes it      *)
(* (scan button, sort, table, selector), and the per-series signal         *)
(* computation.                                                            *)
(*                                                                         *)
(* Numbers.  Prices, averages and deviations are floats in the program.    *)
(* They are modelled as exact rationals [num, den] with den > 0 in lowest  *)
(* terms, plus the value NaN (den = 0).  NaN follows IEEE/Python rules:    *)
(* it propagates through arithmetic, every comparison with it is false,    *)
(* and Python's float division raises ZeroDivisionError on a zero divisor  *)
(* whatever the dividend.  Rounding of float arithmetic is not modelled.   *)
(***************************************************************************)
EXTENDS Integers, Sequences, FiniteSets, TLC

VARIABLES
    now,       \* wall clock, seconds
    cache,     \* st.cache_data entry of get_market_data: [state, value, expiry]
    df,        \* value get_market_data returned to the last script run
    page,      \* what the last script run put on the page: [outcome, table]
    calc,      \* the calculator column: [selected, rate]
    run,       \* the last script run: [runs, clicked, computations]
    history,   \* provider response handed to one execution of the body
    result,    \* outcome of that execution: [done, raised, value, swallowed]
    series,    \* input of the signal computer: one price series
    mode,      \* reference mode of the signal computer
    snapshot   \* output of the signal computer: [done, kind, row]

vars == <<now, cache, df, page, calc, run, history, result, series, mode, snapshot>>

(***************************** bounds **************************************)
NumCurrencies == 2   \* watchlist entries in play (the program has 16)
MaxLen == 2          \* rows of a provider response
FeedLen == 1         \* rows of a response in the script-run specification
MaxTime == 450       \* clock stops here
MaxSeriesLen == 4    \* series length in the signal computer's inputs
EdgeLen == 2         \* series length over the threshold-edge prices
TickLen == 150       \* seconds the clock advances in one step

(************************ program constants ********************************)
TTL == 300

(***************************** numbers *************************************)
Abs(n) == IF n < 0 THEN -n ELSE n

RECURSIVE GCD(_, _)
GCD(a, b) == IF b = 0 THEN a ELSE GCD(b, a % b)

NaN == [num |-> 0, den |-> 0]
IsNaN(x) == x.den = 0

\* n/d in lowest terms, d # 0
Rat(n, d) ==
    LET g == GCD(Abs(n), Abs(d))
        s == IF d < 0 THEN -1 ELSE 1
    IN  [num |-> (s * n) \div g, den |-> (s * d) \div g]

Whole(n) == [num |-> n, den |-> 1]
IsZero(x) == ~IsNaN(x) /\ x.num = 0

RAdd(x, y) == IF IsNaN(x) \/ IsNaN(y) THEN NaN
              ELSE Rat(x.num * y.den + y.num * x.den, x.den * y.den)
RSub(x, y) == IF IsNaN(x) \/ IsNaN(y) THEN NaN
              ELSE Rat(x.num * y.den - y.num * x.den, x.den * y.den)
RMul(x, y) == IF IsNaN(x) \/ IsNaN(y) THEN NaN
              ELSE Rat(x.num * y.num, x.den * y.den)
\* y is not zero: the caller raises ZeroDivisionError first
RDiv(x, y) == IF IsNaN(x) \/ IsNaN(y) THEN NaN
              ELSE Rat(x.num * y.den, x.den * y.num)
RLt(x, y) == ~IsNaN(x) /\ ~IsNaN(y) /\ x.num * y.den < y.num * x.den
RLe(x, y) == ~IsNaN(x) /\ ~IsNaN(y) /\ x.num * y.den <= y.num * x.den

(**************************** watchlist ************************************)
currencies == <<
    [name |-> "JPY (Japan)",        ticker |-> "JPYINR=X"],
    [name |-> "TRY (Turkey)",       ticker |-> "TRYINR=X"],
    [name |-> "ARS (Argentina)",    ticker |-> "ARSINR=X"],
    [name |-> "EGP (Egypt)",        ticker |-> "EGPINR=X"],
    [name |-> "IDR (Indonesia)",    ticker |-> "IDRINR=X"],
    [name |-> "VND (Vietnam)",      ticker |-> "VNDINR=X"],
    [name |-> "KRW (South Korea)",  ticker |-> "KRWINR=X"],
    [name |-> "GBP (UK)",           ticker |-> "GBPINR=X"],
    [name |-> "EUR (Europe)",       ticker |-> "EURINR=X"],
    [name |-> "CAD (Canada)",       ticker |-> "CADINR=X"],
    [name |-> "AUD (Australia)",    ticker |-> "AUDINR=X"],
    [name |-> "AED (Dubai)",        ticker |-> "AEDINR=X"],
    [name |-> "THB (Thailand)",     ticker |-> "THBINR=X"],
    [name |-> "BRL (Brazil)",       ticker |-> "BRLINR=X"],
    [name |-> "ZAR (South Africa)", ticker |-> "ZARINR=X"],
    [name |-> "NOK (Norway)",       ticker |-> "NOKINR=X"] >>

\* the entries in play, in dict order
Watchlist == SubSeq(currencies, 1, NumCurrencies)
Tickers == {Watchlist[i].ticker : i \in 1..Len(Watchlist)}

(*********************** the provider's response ***************************)
\* Closing prices a response cell can hold; NaN is a missing cell of the
\* combined table (a symbol with no quote on that date).
Values == {NaN, Whole(0), Whole(1)}

\* The date index as delivered: position -> date, dates 1..n in any order.
IndexOrders(n) == {ix \in [1..n -> 1..n] : \A i, j \in 1..n : ix[i] = ix[j] => i = j}

\* yf.download(...)['Close'] for several symbols: a table with one column per
\* symbol present (cols) and one row per date of the index ...
Frame(ix, c) == [shape |-> "frame", index |-> ix, cols |-> c]

\* ... and when only one symbol t is present: that symbol's flat series.
Flat(ix, t, s) == [shape |-> "series", index |-> ix, cols |-> [x \in {t} |-> s]]

\* h is a response of at most len rows
IsResponse(h, len) ==
    \E n \in 0..len : \E ix \in IndexOrders(n) :
        \/ \E S \in SUBSET Tickers : \E c \in [S -> [1..n -> Values]] : h = Frame(ix, c)
        \/ \E t \in Tickers : \E s \in [1..n -> Values] : h = Flat(ix, t, s)

\* the responses of at most len rows, as a set
ResponsesUpTo(len) ==
    UNION {UNION {{Frame(ix, c) : ix \in IndexOrders(n), c \in [S -> [1..n -> Values]]} :
                  n \in 0..len} : S \in SUBSET Tickers}
    \cup
    UNION {UNION {{Flat(ix, t, s) : ix \in IndexOrders(n), s \in [1..n -> Values]} :
                  n \in 0..len} : t \in Tickers}

(************************ pandas helpers ***********************************)
RECURSIVE SumNotNa(_)
SumNotNa(s) ==
    IF Len(s) = 0 THEN Whole(0)
    ELSE IF IsNaN(Head(s)) THEN SumNotNa(Tail(s))
    ELSE RAdd(Head(s), SumNotNa(Tail(s)))

CountNotNa(s) == Cardinality({i \in 1..Len(s) : ~IsNaN(s[i])})

\* Series.mean(): NaN cells are skipped; NaN when nothing is left
Mean(s) == IF CountNotNa(s) = 0 THEN NaN
           ELSE RDiv(SumNotNa(s), Whole(CountNotNa(s)))


(********************** get_market_data: the body **************************)
BuyThreshold == Rat(-2, 1)        \* change_pct < -2.0
DiscountThreshold == Rat(-1, 2)   \* change_pct < -0.5
AvoidThreshold == Rat(1, 1)       \* change_pct > 1.0

\* (mutant) the -0.5 test placed before the -2.0 test
Signal_DiscountFirst(change_pct) ==
    IF RLt(change_pct, DiscountThreshold) THEN "Discounted"
    ELSE IF RLt(change_pct, BuyThreshold) THEN "BUY SIGNAL (Crash)"
    ELSE IF RLt(AvoidThreshold, change_pct) THEN "Avoid (Expensive)"
    ELSE "Neutral"

\* Recommendation logic: the if / elif chain, first match wins
Signal(change_pct) ==
    IF RLt(change_pct, BuyThreshold) THEN "BUY SIGNAL (Crash)"
    ELSE IF RLt(change_pct, DiscountThreshold) THEN "Discounted"
    ELSE IF RLt(AvoidThreshold, change_pct) THEN "Avoid (Expensive)"
    ELSE "Neutral"

\* (mutant) iloc[0] in place of iloc[-1]
Current_First(s) == s[1]

\* series.iloc[-1]: the entry in the last position
Current(s) == s[Len(s)]

\* ((current_price - avg_price) / avg_price) * 100, avg_price # 0
ChangePct(current_price, avg_price) ==
    RMul(RDiv(RSub(current_price, avg_price), avg_price), Whole(100))

\* One pass of the try block on a selected series: the row appended, or the
\* exception that the except clause swallows.
ComputeRow(entry, s) ==
    IF Len(s) = 0
    THEN [kind |-> "IndexError", rows |-> <<>>]
    ELSE LET current_price == Current(s)
             avg_price == Mean(s)
         IN  IF IsZero(avg_price)
             THEN [kind |-> "ZeroDivisionError", rows |-> <<>>]
             ELSE LET change_pct == ChangePct(current_price, avg_price)
                  IN  [kind |-> "row",
                       rows |-> << [Currency |-> entry.name,
                                    Rate |-> current_price,
                                    Avg30d |-> avg_price,
                                    DeviationPct |-> change_pct,
                                    Signal |-> Signal(change_pct),
                                    Ticker |-> entry.ticker] >>]

\* "Handle Single vs Multi-index columns": the series the loop uses for a
\* ticker; found = FALSE is the bare continue.
SelectSeries(h, ticker) ==
    IF h.shape = "frame" /\ ticker \in DOMAIN h.cols
    THEN [found |-> TRUE, series |-> h.cols[ticker]]
    ELSE IF h.shape = "series"
    THEN [found |-> TRUE, series |-> h.cols[CHOOSE t \in DOMAIN h.cols : TRUE]]
    ELSE [found |-> FALSE, series |-> <<>>]

\* One iteration of the for loop
LoopBody(h, entry) ==
    LET sel == SelectSeries(h, entry.ticker)
    IN  IF sel.found THEN ComputeRow(entry, sel.series)
        ELSE [kind |-> "continue", rows |-> <<>>]

RECURSIVE Collect(_, _)
Collect(h, entries) ==
    IF Len(entries) = 0 THEN <<>>
    ELSE LoopBody(h, Head(entries)).rows \o Collect(h, Tail(entries))

\* The undecorated function on a provider response h: it always returns the
\* table of appended rows; the exceptions of the loop are swallowed.
get_market_data(h) ==
    [done |-> TRUE,
     raised |-> "none",
     value |-> Collect(h, Watchlist),
     swallowed |-> {<<Watchlist[i].ticker, LoopBody(h, Watchlist[i]).kind>> :
                       i \in {j \in 1..Len(Watchlist) :
                                 LoopBody(h, Watchlist[j]).kind
                                     \in {"IndexError", "ZeroDivisionError"}}}]

NotRun == [done |-> FALSE, raised |-> "none", value |-> <<>>, swallowed |-> {}]

\* the tables the function can return to a script run
FeedResults == {get_market_data(h).value : h \in ResponsesUpTo(FeedLen)}

(*********************** the signal computer *******************************)
\* Peak-gap profile: reference = the series maximum, gap = the drop from it
\* in percent, loophole-found above 10 %.
GapThreshold == Rat(10, 1)

RECURSIVE MaxOf(_)
MaxOf(s) ==
    IF Len(s) = 1 THEN Head(s)
    ELSE LET m == MaxOf(Tail(s))
         IN  IF RLt(m, Head(s)) THEN Head(s) ELSE m

Status(gap) == IF RLt(GapThreshold, gap) THEN "loophole-found" ELSE "stable"

PeakGapRow(entry, s) ==
    IF Len(s) = 0
    THEN [kind |-> "EmptySeries", rows |-> <<>>]
    ELSE LET current == Current(s)
             reference == MaxOf(s)
         IN  IF IsZero(reference)
             THEN [kind |-> "DivisionError", rows |-> <<>>]
             ELSE LET gap == RMul(RDiv(RSub(reference, current), reference), Whole(100))
                  IN  [kind |-> "row",
                       rows |-> << [Currency |-> entry.name,
                                    Rate |-> current,
                                    Reference |-> reference,
                                    Gap |-> gap,
                                    Status |-> Status(gap),
                                    Ticker |-> entry.ticker] >>]

Modes == {"mean-deviation", "peak-gap"}

\* The signal computer under a profile's mode
SignalComputer(m, entry, s) ==
    IF m = "peak-gap" THEN PeakGapRow(entry, s) ELSE ComputeRow(entry, s)

(************************ st.cache_data(ttl=300) ***************************)
EMPTY == [state |-> "EMPTY", value |-> <<>>, expiry |-> 0]
Cached(v, e) == [state |-> "CACHED", value |-> v, expiry |-> e]

\* an entry is served while the clock is before its expiry
CacheValid(c, t) == c.state = "CACHED" /\ t < c.expiry

\* (mutant) a wrapper that never serves the stored value
CachedCall_NoHit(c, t, fresh) ==
    [cache |-> Cached(fresh, t + TTL), value |-> fresh, computations |-> 1]

\* The decorated call at time t on cache c; fresh is what the body would
\* return if it ran.  A hit returns the stored value and runs nothing; a
\* miss runs the body once and stores its value for TTL seconds.
CachedCall(c, t, fresh) ==
    IF CacheValid(c, t)
    THEN [cache |-> c, value |-> c.value, computations |-> 0]
    ELSE [cache |-> Cached(fresh, t + TTL), value |-> fresh, computations |-> 1]

\* (mutant) a clear that leaves the entry in place
Clear_Keep(c) == c

\* st.cache_data.clear()
Clear(c) == EMPTY

(************************** the page ***************************************)
Blank == [outcome |-> "none", table |-> <<>>]
NoCalc == [selected |-> "", rate |-> NaN]

Perms(n) == {p \in [1..n -> 1..n] : \A i, j \in 1..n : p[i] = p[j] => i = j}

\* df.sort_values(by="Deviation %", ascending=True): the rows with a numeric
\* deviation in non-decreasing order (ties in an order the sort algorithm
\* picks), then the rows whose deviation is NaN in their original order.
SortValues(rows) ==
    LET n == Len(rows)
        k == Cardinality({i \in 1..n : ~IsNaN(rows[i].DeviationPct)})
        Ok(p) ==
            /\ \A i \in 1..n : (i <= k) = ~IsNaN(rows[p[i]].DeviationPct)
            /\ \A i, j \in 1..k :
                   i < j => RLe(rows[p[i]].DeviationPct, rows[p[j]].DeviationPct)
            /\ \A i, j \in (k + 1)..n : i < j => p[i] < p[j]
    IN  {[i \in 1..n |-> rows[p[i]]] : p \in {q \in Perms(n) : Ok(q)}}

\* Rate of the first row whose Currency is the selected one
RateOf(table, selected) ==
    table[CHOOSE i \in 1..Len(table) :
              /\ table[i].Currency = selected
              /\ \A j \in 1..(i - 1) : table[j].Currency # selected].Rate

\* The scanner column on the table d that get_market_data returned.
\* pd.DataFrame([]) has no columns, so sorting it by "Deviation %" raises
\* KeyError and the run ends there; otherwise the sorted table is shown.
Pages(d) ==
    IF Len(d) = 0
    THEN {[outcome |-> "KeyError", table |-> <<>>]}
    ELSE {[outcome |-> "rendered", table |-> df_sorted] : df_sorted \in SortValues(d)}

\* The calculator column with option i of the selector chosen
Calculator(table, i) ==
    [selected |-> table[i].Currency, rate |-> RateOf(table, table[i].Currency)]

\* ... as a run leaves it when the user has not touched the selector: the
\* first option; nothing when the run ended before it
DefaultCalc(pg) ==
    IF pg.outcome = "rendered" THEN Calculator(pg.table, 1) ELSE NoCalc

\* Outcomes of the body for a call at time t on cache c: it runs only on a miss.
Fresh(c, t) == IF CacheValid(c, t) THEN {c.value} ELSE FeedResults

(************************* the script run **********************************)
NoRun == [clicked |-> FALSE, computations |-> 0]

Init ==
    /\ now = 0
    /\ cache = EMPTY
    /\ df = <<>>
    /\ page = Blank
    /\ calc = NoCalc
    /\ run = NoRun
    /\ history = [shape |-> "frame", index |-> <<>>, cols |-> <<>>]
    /\ result = NotRun
    /\ series = <<>>
    /\ mode = "mean-deviation"
    /\ snapshot = [done |-> FALSE, kind |-> "none", rows |-> <<>>]

\* One run of the script, top to bottom: the button, the cached call, the
\* sort, the table and the selector.
\* "Scan Market Now" pressed: the cache is cleared before the call.
Scan ==
    \E fresh \in Fresh(Clear(cache), now) :
        LET call == CachedCall(Clear(cache), now, fresh)
        IN  /\ cache' = call.cache
            /\ df' = call.value
            /\ run' = [clicked |-> TRUE, computations |-> call.computations]
            /\ page' \in Pages(call.value)
            /\ calc' = DefaultCalc(page')
            /\ UNCHANGED <<now, history, result, series, mode, snapshot>>

\* Page load, or any other widget changed: the call finds the cache as it is.
Load ==
    \E fresh \in Fresh(cache, now) :
        LET call == CachedCall(cache, now, fresh)
        IN  /\ cache' = call.cache
            /\ df' = call.value
            /\ run' = [clicked |-> FALSE, computations |-> call.computations]
            /\ page' \in Pages(call.value)
            /\ calc' = DefaultCalc(page')
            /\ UNCHANGED <<now, history, result, series, mode, snapshot>>

\* time passes between interactions
Tick ==
    /\ now + TickLen <= MaxTime
    /\ now' = now + TickLen
    /\ UNCHANGED <<cache, df, page, calc, run, history, result, series, mode, snapshot>>

Next == Scan \/ Load \/ Tick

Spec == Init /\ [][Next]_vars

(****************** get_market_data on every response **********************)
Idle ==
    /\ now = 0
    /\ cache = EMPTY
    /\ run = NoRun

FetchInit ==
    /\ Idle
    /\ df = <<>>
    /\ page = Blank
    /\ calc = NoCalc
    /\ IsResponse(history, MaxLen)
    /\ result = NotRun
    /\ series = <<>>
    /\ mode = "mean-deviation"
    /\ snapshot = [done |-> FALSE, kind |-> "none", rows |-> <<>>]

\* the body runs once on the response
Fetch ==
    /\ ~result.done
    /\ result' = get_market_data(history)
    /\ UNCHANGED <<now, cache, df, page, calc, run, history, series, mode, snapshot>>

FetchNext == Fetch

FetchSpec == FetchInit /\ [][FetchNext]_vars

(********************* the page on every table *****************************)
PageInit ==
    /\ Idle
    /\ \E n \in 0..MaxLen : \E ix \in IndexOrders(n) :
          \/ \E S \in SUBSET Tickers : \E c \in [S -> [1..n -> Values]] :
                 df = get_market_data(Frame(ix, c)).value
          \/ \E t \in Tickers : \E s \in [1..n -> Values] :
                 df = get_market_data(Flat(ix, t, s)).value
    /\ page = Blank
    /\ calc = NoCalc
    /\ history = [shape |-> "frame", index |-> <<>>, cols |-> <<>>]
    /\ result = NotRun
    /\ series = <<>>
    /\ mode = "mean-deviation"
    /\ snapshot = [done |-> FALSE, kind |-> "none", rows |-> <<>>]

\* the script from the sort on, given the table the call returned
Present ==
    /\ page.outcome = "none"
    /\ page' \in Pages(df)
    /\ calc' = DefaultCalc(page')
    /\ UNCHANGED <<now, cache, df, run, history, result, series, mode, snapshot>>

\* the user picks another option of the selector
Select ==
    /\ page.outcome = "rendered"
    /\ \E i \in 1..Len(page.table) :
           /\ page.table[i].Currency # calc.selected
           /\ calc' = Calculator(page.table, i)
    /\ UNCHANGED <<now, cache, df, page, run, history, result, series, mode, snapshot>>

PageNext == Present \/ Select

PageSpec == PageInit /\ [][PageNext]_vars

(***************** the signal computer on every series *********************)
CorePrices == {90, 100, 105, 110}
EdgePrices == {97, 103, 98, 102, 199, 201, 99, 101}

SeqsUpTo(S, len) == UNION {[1..n -> S] : n \in 0..len}

PriceSeries(s) == [i \in 1..Len(s) |-> Whole(s[i])]

SignalInputs ==
    {PriceSeries(s) : s \in SeqsUpTo(CorePrices, MaxSeriesLen)
                           \cup SeqsUpTo(CorePrices \cup EdgePrices, EdgeLen)}

SignalInit ==
    /\ Idle
    /\ df = <<>>
    /\ page = Blank
    /\ calc = NoCalc
    /\ history = [shape |-> "frame", index |-> <<>>, cols |-> <<>>]
    /\ result = NotRun
    /\ series \in SignalInputs
    /\ mode \in Modes
    /\ snapshot = [done |-> FALSE, kind |-> "none", rows |-> <<>>]

ComputeSignal ==
    /\ ~snapshot.done
    /\ LET out == SignalComputer(mode, Watchlist[1], series)
       IN  snapshot' = [done |-> TRUE, kind |-> out.kind, rows |-> out.rows]
    /\ UNCHANGED <<now, cache, df, page, calc, run, history, result, series, mode>>

SignalNext == ComputeSignal

SignalSpec == SignalInit /\ [][SignalNext]_vars


(***************************************************************************)
(*                              Properties                                 *)
(***************************************************************************)
\* In Spec the clock moves only in Tick, so a step that changes the state and
\* leaves now alone is one script run; run'.clicked tells a Scan from a Load.
ScriptStep == now' = now

\* C1: a call made while the entry is CACHED and the clock is before its
\* expiry, with no refresh pressed, returns the stored table, leaves the entry
\* as it is and runs the body zero times; hence a second such call returns
\* the same table as the call before it.
C1_ValidHitReturnsStored ==
    [][(ScriptStep /\ ~run'.clicked /\ CacheValid(cache, now)) =>
          /\ df' = cache.value
          /\ cache' = cache
          /\ run'.computations = 0
          /\ (page.outcome # "none" => df' = df)]_vars

\* a Load served from the cache after time has passed, with a table to show
C1_Witness ==
    /\ page.outcome = "rendered"
    /\ ~run.clicked
    /\ run.computations = 0
    /\ now > 0
    /\ CacheValid(cache, now)

NoData(h, t) ==
    \/ t \notin DOMAIN h.cols
    \/ \A i \in 1..Len(h.cols[t]) : IsNaN(h.cols[t][i])

RowsOf(table, t) == {i \in 1..Len(table) : table[i].Ticker = t}

\* C3: whatever subset of the currencies has no data in the response, the
\* function returns without raising, with exactly one row for every other
\* currency, computed from that currency's own series, and no row for a
\* currency without data.
C3_PartialFailureDropsOnlyFailed ==
    result.done =>
        /\ result.raised = "none"
        /\ \A k \in 1..Len(Watchlist) :
               LET entry == Watchlist[k]
                   mine == RowsOf(result.value, entry.ticker)
               IN  IF NoData(history, entry.ticker)
                   THEN mine = {}
                   ELSE /\ Cardinality(mine) = 1
                        /\ \A i \in mine :
                               <<result.value[i]>> =
                                   ComputeRow(entry, history.cols[entry.ticker]).rows

\* the series the loop used for ticker t has mean exactly 0
ZeroMean(h, t) ==
    LET sel == SelectSeries(h, t)
    IN  sel.found /\ Len(sel.series) > 0 /\ IsZero(Mean(sel.series))

\* C5: when a currency's series mean is exactly 0 the call fails with a
\* division error raised to the caller; the currency is not dropped silently.
C5_ZeroReferenceRaises ==
    (result.done /\ \E t \in Tickers : ZeroMean(history, t)) =>
        /\ result.raised = "ZeroDivisionError"
        /\ \A t \in Tickers : <<t, "ZeroDivisionError">> \notin result.swallowed

\* C6: when the call returns an empty table the script run ends in a
\* "data unavailable" condition, not in an error of the sort step or later.
C6_EmptyResultIsDataUnavailable ==
    (page.outcome # "none" /\ Len(df) = 0) => page.outcome = "data-unavailable"

IsPermutationOf(a, b) ==
    /\ Len(a) = Len(b)
    /\ \E p \in Perms(Len(a)) : \A i \in 1..Len(a) : a[i] = b[p[i]]

NonDecreasing(table) ==
    \A i, j \in 1..Len(table) :
        i < j => RLe(table[i].DeviationPct, table[j].DeviationPct)

WinnerIsMinimum(table) ==
    \A i \in 1..Len(table) : RLe(table[1].DeviationPct, table[i].DeviationPct)

\* C7: the rows shown are a permutation of the returned rows in non-decreasing
\* order of deviation, so the first row has the minimum deviation.
C7_SortedAscendingWinnerFirst ==
    (page.outcome # "none" /\ Len(df) > 0) =>
        /\ page.outcome = "rendered"
        /\ IsPermutationOf(page.table, df)
        /\ NonDecreasing(page.table)
        /\ WinnerIsMinimum(page.table)

\* Auxiliary: what does hold of the sort. When every deviation is a number
\* the order is as C7 says; rows with a NaN deviation are what breaks it.
SortedWhenAllNumeric ==
    (page.outcome # "none" /\ Len(df) > 0
        /\ \A i \in 1..Len(df) : ~IsNaN(df[i].DeviationPct)) =>
        /\ page.outcome = "rendered"
        /\ IsPermutationOf(page.table, df)
        /\ NonDecreasing(page.table)
        /\ WinnerIsMinimum(page.table)


\* C4: in mean-deviation mode the signal of a row is the first rule its
\* deviation matches: below -2.0 strong-buy, else below -0.5 discounted, else
\* above 1.0 avoid, else neutral; -3.0 is strong-buy, 0 is neutral, and the
\* edges -2.0, -0.5 and 1.0 are discounted, neutral and neutral.
C4_FirstMatchingThreshold ==
    (snapshot.done /\ mode = "mean-deviation") =>
        \A i \in 1..Len(snapshot.rows) :
            LET d == snapshot.rows[i].DeviationPct
                sig == snapshot.rows[i].Signal
            IN  /\ RLt(d, Rat(-2, 1)) => sig = "BUY SIGNAL (Crash)"
                /\ (RLe(Rat(-2, 1), d) /\ RLt(d, Rat(-1, 2))) => sig = "Discounted"
                /\ (RLe(Rat(-1, 2), d) /\ RLe(d, Rat(1, 1))) => sig = "Neutral"
                /\ RLt(Rat(1, 1), d) => sig = "Avoid (Expensive)"
                /\ d = Rat(-3, 1) => sig = "BUY SIGNAL (Crash)"
                /\ d = Rat(0, 1) => sig = "Neutral"
                /\ d = Rat(-2, 1) => sig = "Discounted"
                /\ d = Rat(-1, 2) => sig = "Neutral"
                /\ d = Rat(1, 1) => sig = "Neutral"

\* a row whose deviation is exactly -3.0
C4_Witness ==
    /\ snapshot.done
    /\ mode = "mean-deviation"
    /\ Len(snapshot.rows) = 1
    /\ snapshot.rows[1].DeviationPct = Rat(-3, 1)
    /\ snapshot.rows[1].Signal = "BUY SIGNAL (Crash)"

\* Auxiliary: violated exactly when an edge deviation occurs among the inputs
EdgeDeviationsAbsent ==
    ~(snapshot.done /\ mode = "mean-deviation" /\ Len(snapshot.rows) = 1
        /\ snapshot.rows[1].DeviationPct \in {Rat(-2, 1), Rat(-1, 2), Rat(1, 1)})

RECURSIVE SumOf(_)
SumOf(s) == IF Len(s) = 0 THEN Whole(0) ELSE RAdd(Head(s), SumOf(Tail(s)))

HasData(h, t) == t \in DOMAIN h.cols /\ ~NoData(h, t)

EntryOf(t) == Watchlist[CHOOSE k \in 1..Len(Watchlist) : Watchlist[k].ticker = t]

\* C9: whichever shape the response has, every row is computed from the series
\* the response holds for the row's own ticker, and every ticker with data in
\* the response has a row.
C9_RowsFromOwnSeries ==
    result.done =>
        /\ \A i \in 1..Len(result.value) :
               LET r == result.value[i]
               IN  /\ r.Ticker \in DOMAIN history.cols
                   /\ <<r>> = ComputeRow(EntryOf(r.Ticker), history.cols[r.Ticker]).rows
        /\ \A t \in Tickers :
               HasData(history, t) => RowsOf(result.value, t) # {}

\* position of the chronologically latest date in the index as delivered
LatestPos(h) == CHOOSE p \in 1..Len(h.index) : h.index[p] = Len(h.index)

\* C10: the rate of a row is the close of the latest date of the series the
\* row was computed from, whatever the order of the dates in the response.
C10_CurrentIsLatestClose ==
    result.done =>
        \A i \in 1..Len(result.value) :
            result.value[i].Rate =
                SelectSeries(history, result.value[i].Ticker).series[LatestPos(history)]

====
